---- MODULE Spec2Model ----
(***************************************************************************)
(* Model of src/claims_checker.py: a Streamlit script that pairs uploaded  *)
(* PDF and CSV files by a normalised name, sends every pair to an oracle   *)
(* (client.messages.create), and renders the results.                      *)
(*                                                                         *)
(* Strings are sequences of one-character strings, so that stem, replace,  *)
(* strip, lower, substring tests and the report's concatenation are        *)
(* computed as Python computes them.  The script is re-executed from the   *)
(* top on every user interaction; a run's local variables do not survive   *)
(* it.  A button reads True only in the run its click triggered, and a     *)
(* widget that a run does not render loses its stored value.               *)
(***************************************************************************)
EXTENDS Integers, Sequences, FiniteSets, TLC

\* ------------------------------------------------------------------ bounds
\* Most files the user uploads on each side.
MaxFiles == 2

\* --------------------------------------------------------- string helpers
Upper == <<"A","B","C","D","E","F","G","H","I","J","K","L","M","N","O","P","Q","R","S","T","U","V","W","X","Y","Z">>
Lower == <<"a","b","c","d","e","f","g","h","i","j","k","l","m","n","o","p","q","r","s","t","u","v","w","x","y","z">>
Digits == <<"0","1","2","3","4","5","6","7","8","9">>
Whitespace == {" ", "\t", "\n", "\r", "\f"}

\* s[i..] begins with p
StartsWithAt(s, p, i) ==
    /\ i + Len(p) - 1 <= Len(s)
    /\ \A j \in 1..Len(p) : s[i + j - 1] = p[j]

\* Python's `p in s`
Contains(s, p) == \E i \in 1..(Len(s) + 1) : StartsWithAt(s, p, i)

\* the positions at which p occurs in s
Occurrences(s, p) == {i \in 1..(Len(s) + 1) : StartsWithAt(s, p, i)}

\* Python's s.find(p) + 1 (0 when p does not occur)
IndexOf(s, p) ==
    CHOOSE r \in {IF occ = {} THEN 0 ELSE CHOOSE i \in occ : \A k \in occ : i <= k :
                     occ \in {Occurrences(s, p)}} : TRUE

RECURSIVE ReplaceFrom(_, _, _)
ReplaceFrom(s, old, i) ==
    IF i > Len(s) THEN <<>>
    ELSE IF StartsWithAt(s, old, i) THEN ReplaceFrom(s, old, i + Len(old))
    ELSE <<s[i]>> \o ReplaceFrom(s, old, i + 1)

\* str.replace(old, ''): every non-overlapping occurrence, leftmost first
StrRemove(s, old) == ReplaceFrom(s, old, 1)

\* str.strip()
StrStrip(s) ==
    LET keep == {i \in 1..Len(s) : s[i] \notin Whitespace}
    IN  IF keep = {} THEN <<>>
        ELSE LET lo == CHOOSE i \in keep : \A k \in keep : i <= k
                 hi == CHOOSE i \in keep : \A k \in keep : k <= i
             IN  SubSeq(s, lo, hi)

LowerChar(c) ==
    IF \E i \in 1..Len(Upper) : Upper[i] = c
    THEN Lower[CHOOSE i \in 1..Len(Upper) : Upper[i] = c]
    ELSE c

\* str.lower()
StrLower(s) == [i \in 1..Len(s) |-> LowerChar(s[i])]

\* Path(filename).name: the part after the last "/"
PathName(s) ==
    LET sl == {i \in 1..Len(s) : s[i] = "/"}
    IN  IF sl = {} THEN s
        ELSE SubSeq(s, (CHOOSE i \in sl : \A k \in sl : k <= i) + 1, Len(s))

\* Path(filename).stem: the name without its last suffix; a leading or a
\* trailing dot is no suffix separator
PathStem(s) ==
    LET name == PathName(s)
        dots == {i \in 1..Len(name) : name[i] = "."}
    IN  IF dots = {} THEN name
        ELSE LET i == CHOOSE d \in dots : \A k \in dots : k <= d
             IN  IF 1 < i /\ i < Len(name) THEN SubSeq(name, 1, i - 1) ELSE name

RECURSIVE StrOfNat(_)
\* str(n) for n >= 0
StrOfNat(n) ==
    IF n < 10 THEN <<Digits[n + 1]>>
    ELSE StrOfNat(n \div 10) \o <<Digits[(n % 10) + 1]>>

RECURSIVE StrJoin(_, _)
\* sep.join(parts)
StrJoin(sep, parts) ==
    IF Len(parts) = 0 THEN <<>>
    ELSE IF Len(parts) = 1 THEN parts[1]
    ELSE parts[1] \o sep \o StrJoin(sep, Tail(parts))

\* ------------------------------------------------------ name normalisation
Suffixes == <<
    <<"_","i","n","v","o","i","c","e">>,
    <<"_","c","l","a","i","m">>,
    <<"_","s","t","a","t","e","m","e","n","t">>,
    <<" ","i","n","v","o","i","c","e">>,
    <<" ","c","l","a","i","m">>,
    <<" ","s","t","a","t","e","m","e","n","t">> >>

RECURSIVE RemoveSuffixes(_, _)
\* the for loop over the suffix list, from the k-th suffix on
RemoveSuffixes(name, k) ==
    IF k > Len(Suffixes) THEN name
    ELSE RemoveSuffixes(StrRemove(name, Suffixes[k]), k + 1)

get_base_name(filename) == StrLower(StrStrip(RemoveSuffixes(PathStem(filename), 1)))

\* ------------------------------------------------------------ input pools
\* Names the user may upload (the uploaders accept .pdf and .csv files).
claim_001_pdf == <<"c","l","a","i","m","_","0","0","1",".","p","d","f">>
claim_002_pdf == <<"c","l","a","i","m","_","0","0","2",".","p","d","f">>
claim_003_pdf == <<"c","l","a","i","m","_","0","0","3",".","p","d","f">>
Claim_001_invoice_pdf == <<"C","l","a","i","m","_","0","0","1","_","i","n","v","o","i","c","e",".","p","d","f">>
claim_001_csv == <<"c","l","a","i","m","_","0","0","1",".","c","s","v">>
claim_002_csv == <<"c","l","a","i","m","_","0","0","2",".","c","s","v">>
claim_003_csv == <<"c","l","a","i","m","_","0","0","3",".","c","s","v">>
claim_001_statement_csv == <<"c","l","a","i","m","_","0","0","1"," ","s","t","a","t","e","m","e","n","t",".","c","s","v">>

PdfNames == {claim_001_pdf, claim_002_pdf, claim_003_pdf, Claim_001_invoice_pdf}

CsvNames == {claim_001_csv, claim_002_csv, claim_003_csv, claim_001_statement_csv}

\* get_base_name of every name that can be uploaded, computed once
KeyOf == [f \in PdfNames \cup CsvNames |-> get_base_name(f)]

\* ----------------------------------------------------------------- matching
\* A dict is the sequence of its items in insertion order.
DictHas(d, k) == \E i \in 1..Len(d) : d[i].key = k
DictGet(d, k) == d[CHOOSE i \in 1..Len(d) : d[i].key = k].file
DictKeys(d) == {d[i].key : i \in 1..Len(d)}

\* d[k] = f: a key already present keeps its place and takes the new value
DictPut(d, k, f) ==
    IF DictHas(d, k)
    THEN [i \in 1..Len(d) |-> IF d[i].key = k THEN [key |-> k, file |-> f] ELSE d[i]]
    ELSE Append(d, [key |-> k, file |-> f])

RECURSIVE DictOfFiles(_, _, _)
\* {get_base_name(f.name): f for f in files}, from the i-th file on
DictOfFiles(files, i, d) ==
    IF i > Len(files) THEN d
    ELSE DictOfFiles(files, i + 1, DictPut(d, KeyOf[files[i]], files[i]))

MakeDict(files) == DictOfFiles(files, 1, <<>>)

RECURSIVE PairsLoop(_, _, _)
\* the loop over pdf_dict.items(): the matched pairs
PairsLoop(pd, cd, i) ==
    IF i > Len(pd) THEN <<>>
    ELSE (IF DictHas(cd, pd[i].key)
          THEN << <<pd[i].file, DictGet(cd, pd[i].key)>> >>
          ELSE <<>>) \o PairsLoop(pd, cd, i + 1)

RECURSIVE UnmatchedLoop_Inverted(_, _, _)
\* the membership test inverted: keeps the names whose key is in the other dict
UnmatchedLoop_Inverted(d, other, i) ==
    IF i > Len(d) THEN <<>>
    ELSE (IF DictHas(other, d[i].key) THEN <<d[i].file>> ELSE <<>>)
         \o UnmatchedLoop_Inverted(d, other, i + 1)

RECURSIVE UnmatchedLoop(_, _, _)
\* the names of d's files whose key is not in the other dict
UnmatchedLoop(d, other, i) ==
    IF i > Len(d) THEN <<>>
    ELSE (IF ~DictHas(other, d[i].key) THEN <<d[i].file>> ELSE <<>>)
         \o UnmatchedLoop(d, other, i + 1)

MatchFiles(pdfs, csvs) ==
    LET pd == MakeDict(pdfs)
        cd == MakeDict(csvs)
    IN  [pdf_dict       |-> pd,
         csv_dict       |-> cd,
         matched_pairs  |-> PairsLoop(pd, cd, 1),
         unmatched_pdfs |-> UnmatchedLoop(pd, cd, 1),
         unmatched_csvs |-> UnmatchedLoop(cd, pd, 1)]

\* ------------------------------------------------------------ input pools
\* Texts the oracle may answer with.
StatusMatch == <<"*","*","S","t","a","t","u","s",":","*","*"," ","M","A","T","C","H">>
StatusDiscrepancyFound == <<"*","*","S","t","a","t","u","s",":","*","*"," ","D","I","S","C","R","E","P","A","N","C","Y"," ","F","O","U","N","D">>
NoDiscrepancy == <<"N","O"," ","D","I","S","C","R","E","P","A","N","C","Y">>

Responses == {StatusMatch, StatusDiscrepancyFound, NoDiscrepancy}

\* str(e) of the exceptions a pair's processing may raise.
Timeout == <<"t","i","m","e","o","u","t">>

Exceptions == {Timeout}

\* ------------------------------------------------------------- the results
\* "U+274C" stands for the one character of that code point.
ErrorPrefix == <<"U+274C"," ","E","r","r","o","r"," ","p","r","o","c","e","s","s","i","n","g",":"," ">>

Marker == <<"D","I","S","C","R","E","P","A","N","C","Y">>

RuleWidth == 80
Rule == [i \in 1..RuleWidth |-> "="]
NL2 == <<"\n","\n">>

\* inserts at the front instead of appending
RecordResponse_Prepend(rs, pair, text) ==
    <<[pdf |-> pair[1], csv |-> pair[2], result |-> text]>> \o rs

\* results.append({...response_text}) of the try block
RecordResponse(rs, pair, text) ==
    Append(rs, [pdf |-> pair[1], csv |-> pair[2], result |-> text])

\* swallows the exception without recording the pair
HandleException_Drop(rs, pair, e) == rs

\* results.append({...error text}) of the except block
HandleException(rs, pair, e) ==
    Append(rs, [pdf |-> pair[1], csv |-> pair[2], result |-> ErrorPrefix \o e])

\* tests for the longer marker "DISCREPANCY FOUND"
IsDiscrepancy_Found(text) == Contains(text, Marker \o <<" ","F","O","U","N","D">>)

\* "DISCREPANCY" in r["result"]
IsDiscrepancy(text) == Contains(text, Marker)

CountDiscrepancies(rs) == Cardinality({i \in 1..Len(rs) : IsDiscrepancy(rs[i].result)})

\* one expander per result, numbered from 1
Expanders(rs) ==
    [i \in 1..Len(rs) |->
        [n |-> i, pdf |-> rs[i].pdf, csv |-> rs[i].csv,
         expanded |-> IsDiscrepancy(rs[i].result)]]

\* f"CLAIM #{idx}\nPDF: {r['pdf']}\nCSV: {r['csv']}\n\n{r['result']}"
Block(n, r) ==
    <<"C","L","A","I","M"," ","#">> \o StrOfNat(n)
    \o <<"\n","P","D","F",":"," ">> \o r.pdf
    \o <<"\n","C","S","V",":"," ">> \o r.csv
    \o NL2 \o r.result

Blocks(rs) == [i \in 1..Len(rs) |-> Block(i, rs[i])]

\* "\n\n" + "="*80 + "\n\n".join([...]): * binds tighter than +, and the
\* method call tighter than both, so only "\n\n" is the join's separator
Render(rs) == NL2 \o Rule \o StrJoin(NL2, Blocks(rs))

\* -------------------------------------------------------------------- state
VARIABLES
    api_key,          \* whether the API key is available (secrets or text input)
    pdf_files,        \* the PDF uploader's files, in upload order
    csv_files,        \* the CSV uploader's files, in upload order
    checkbox_state,   \* the stored value of the "Continue ..." checkbox
    checkbox_shown,   \* whether the last run rendered the checkbox
    trigger,          \* the interaction that started the current run
    pc,               \* "idle" (run ended or stopped), "loop", "call"
    screen,           \* what the current run has displayed
    pdf_dict, csv_dict, matched_pairs, unmatched_pdfs, unmatched_csvs,
    total_pairs, results, idx,
    progress,         \* numerator of the progress bar's fraction
    requests,         \* idx of every client.messages.create call of this run
    in_flight,        \* oracle requests sent and not yet answered
    outcomes,         \* history: per processed pair, "ok" or "error"
    discrepancy_count, match_count, expanders, results_text

widgets == <<api_key, pdf_files, csv_files, checkbox_state, checkbox_shown, trigger>>
locals == <<pdf_dict, csv_dict, matched_pairs, unmatched_pdfs, unmatched_csvs,
            total_pairs>>
report == <<discrepancy_count, match_count, expanders, results_text>>
vars == <<widgets, pc, screen, locals, results, idx, progress, requests,
          in_flight, outcomes, report>>

NoMatch == [pdf_dict |-> <<>>, csv_dict |-> <<>>, matched_pairs |-> <<>>,
            unmatched_pdfs |-> <<>>, unmatched_csvs |-> <<>>]

\* One execution of the script from the top to the batch loop, to st.stop()
\* or to its end, started by an interaction that leaves the widgets with the
\* given values.  `button` is what st.button returns in this run, `cb` the
\* checkbox's stored value.
Run(trig, key, pdfs, csvs, button, cb) ==
    \E m \in {IF key /\ button THEN MatchFiles(pdfs, csvs) ELSE NoMatch} :
    LET matching  == key /\ button
        unmatched == m.unmatched_pdfs # <<>> \/ m.unmatched_csvs # <<>>
        rendered  == matching /\ unmatched
        stopCb    == rendered /\ ~cb
        stopNone  == matching /\ ~stopCb /\ Len(m.matched_pairs) = 0
        enter     == matching /\ ~stopCb /\ ~stopNone
    IN  /\ trigger' = trig
        /\ api_key' = key
        /\ pdf_files' = pdfs
        /\ csv_files' = csvs
        /\ checkbox_shown' = rendered
        /\ checkbox_state' = (rendered /\ cb)
        /\ screen' =
              (IF ~key THEN {"need_key"} ELSE {})
              \cup (IF key /\ (pdfs # <<>> \/ csvs # <<>>) THEN {"file_counts"} ELSE {})
              \cup (IF matching THEN {"found_pairs"} ELSE {})
              \cup (IF rendered THEN {"unmatched_warning"} ELSE {})
              \cup (IF stopNone THEN {"no_match_error"} ELSE {})
              \cup (IF enter THEN {"progress"} ELSE {})
        /\ pc' = IF enter THEN "loop" ELSE "idle"
        /\ pdf_dict' = m.pdf_dict
        /\ csv_dict' = m.csv_dict
        /\ matched_pairs' = m.matched_pairs
        /\ unmatched_pdfs' = m.unmatched_pdfs
        /\ unmatched_csvs' = m.unmatched_csvs
        /\ total_pairs' = IF enter THEN Len(m.matched_pairs) ELSE 0
        /\ results' = <<>>
        /\ idx' = 0
        /\ progress' = 0
        /\ requests' = <<>>
        /\ in_flight' = 0
        /\ outcomes' = <<>>
        /\ discrepancy_count' = 0
        /\ match_count' = 0
        /\ expanders' = <<>>
        /\ results_text' = <<>>

\* The page as first loaded: the key is in the secrets or not, nothing is
\* uploaded, and the script has run once.
Init ==
    /\ api_key \in BOOLEAN
    /\ pdf_files = <<>>
    /\ csv_files = <<>>
    /\ checkbox_state = FALSE
    /\ checkbox_shown = FALSE
    /\ trigger = "load"
    /\ pc = "idle"
    /\ screen = (IF api_key THEN {} ELSE {"need_key"})
    /\ pdf_dict = <<>>
    /\ csv_dict = <<>>
    /\ matched_pairs = <<>>
    /\ unmatched_pdfs = <<>>
    /\ unmatched_csvs = <<>>
    /\ total_pairs = 0
    /\ results = <<>>
    /\ idx = 0
    /\ progress = 0
    /\ requests = <<>>
    /\ in_flight = 0
    /\ outcomes = <<>>
    /\ discrepancy_count = 0
    /\ match_count = 0
    /\ expanders = <<>>
    /\ results_text = <<>>

\* An interaction is taken up when the script is at a Streamlit call: after
\* the run has ended, or at the head of the batch loop (status_text.text),
\* where the running script is abandoned for the new run.
CanInteract == pc \in {"idle", "loop"}

\* the text input of the except branch of the key lookup
EnterApiKey ==
    /\ CanInteract
    /\ ~api_key
    /\ Run("key", TRUE, pdf_files, csv_files, FALSE, checkbox_state)

UploadPdf(f) ==
    /\ CanInteract
    /\ api_key
    /\ Len(pdf_files) < MaxFiles
    /\ Run("upload", api_key, Append(pdf_files, f), csv_files, FALSE, checkbox_state)

UploadCsv(f) ==
    /\ CanInteract
    /\ api_key
    /\ Len(csv_files) < MaxFiles
    /\ Run("upload", api_key, pdf_files, Append(csv_files, f), FALSE, checkbox_state)

\* the button is disabled unless both uploaders hold files
ClickButton ==
    /\ CanInteract
    /\ api_key
    /\ pdf_files # <<>>
    /\ csv_files # <<>>
    /\ Run("button", api_key, pdf_files, csv_files, TRUE, checkbox_state)

\* ticking or unticking the checkbox the last run rendered
ToggleCheckbox ==
    /\ CanInteract
    /\ checkbox_shown
    /\ Run(IF checkbox_state THEN "checkbox_off" ELSE "checkbox_on",
           api_key, pdf_files, csv_files, FALSE, ~checkbox_state)

\* ---------------------------------------------------------- the batch loop
CurrentPair == matched_pairs[idx + 1]

\* pdf_file.read() or csv_file.read() raises: the except block, then the
\* progress update, then the next iteration
ReadFails(e) ==
    /\ pc = "loop"
    /\ idx < total_pairs
    /\ results' = HandleException(results, CurrentPair, e)
    /\ outcomes' = Append(outcomes, "error")
    /\ progress' = idx + 1
    /\ idx' = idx + 1
    /\ UNCHANGED <<widgets, pc, screen, locals, requests, in_flight, report>>

\* both reads succeed and client.messages.create is called
SendRequest ==
    /\ pc = "loop"
    /\ idx < total_pairs
    /\ requests' = Append(requests, idx)
    /\ in_flight' = in_flight + 1
    /\ pc' = "call"
    /\ UNCHANGED <<widgets, screen, locals, results, idx, progress, outcomes, report>>

\* the call returns a message with this text
OracleReply(text) ==
    /\ pc = "call"
    /\ in_flight' = in_flight - 1
    /\ results' = RecordResponse(results, CurrentPair, text)
    /\ outcomes' = Append(outcomes, "ok")
    /\ progress' = idx + 1
    /\ idx' = idx + 1
    /\ pc' = "loop"
    /\ UNCHANGED <<widgets, screen, locals, requests, report>>

\* retries the pair after a failed call: nothing is recorded, idx stays
OracleError_Retry(e) ==
    /\ pc = "call"
    /\ in_flight' = in_flight - 1
    /\ pc' = "loop"
    /\ UNCHANGED <<widgets, screen, locals, results, idx, progress, requests,
                   outcomes, report>>

\* the call raises
OracleError(e) ==
    /\ pc = "call"
    /\ in_flight' = in_flight - 1
    /\ results' = HandleException(results, CurrentPair, e)
    /\ outcomes' = Append(outcomes, "error")
    /\ progress' = idx + 1
    /\ idx' = idx + 1
    /\ pc' = "loop"
    /\ UNCHANGED <<widgets, screen, locals, requests, report>>

\* after the loop: the counts, the expanders and the report
Finish ==
    /\ pc = "loop"
    /\ idx = total_pairs
    /\ screen' = screen \cup {"complete"}
    /\ discrepancy_count' = CountDiscrepancies(results)
    /\ match_count' = total_pairs - CountDiscrepancies(results)
    /\ expanders' = Expanders(results)
    /\ results_text' = Render(results)
    /\ pc' = "idle"
    /\ UNCHANGED <<widgets, locals, results, idx, progress, requests, in_flight,
                   outcomes>>

Next ==
    \/ EnterApiKey
    \/ \E f \in PdfNames : UploadPdf(f)
    \/ \E f \in CsvNames : UploadCsv(f)
    \/ ClickButton
    \/ ToggleCheckbox
    \/ \E e \in Exceptions : ReadFails(e)
    \/ SendRequest
    \/ \E t \in Responses : OracleReply(t)
    \/ \E e \in Exceptions : OracleError(e)
    \/ Finish

Spec == Init /\ [][Next]_vars

\* ------------------------------------------------------------- properties
\* the run went through its whole script
Complete == pc = "idle" /\ "complete" \in screen

\* the current run executed the matching (the button read True)
Matched == "found_pairs" \in screen

Range(q) == {q[i] : i \in 1..Len(q)}

NumWhere(P(_), n) == Cardinality({i \in 1..n : P(i)})

\* C1: per-pair failure isolation.  Every processed pair, failed or not,
\* leaves exactly one entry in results; a run that entered the batch loop
\* ends only after its last pair, and then results holds one entry per matched
\* pair, the i-th being the i-th pair's.
C1_FailureIsolation ==
    /\ Len(results) = idx
    /\ Len(outcomes) = idx
    /\ "progress" \in screen =>
          /\ total_pairs = Len(matched_pairs)
          /\ idx <= total_pairs
          /\ (pc = "idle" => "complete" \in screen)
    /\ Complete =>
          /\ Len(results) = Len(matched_pairs)
          /\ \A i \in 1..Len(matched_pairs) : results[i].pdf = matched_pairs[i][1]

\* a finished two-pair batch whose first pair failed and whose second succeeded
C1_Witness ==
    /\ Complete
    /\ Len(matched_pairs) = 2
    /\ outcomes = <<"error", "ok">>
    /\ Len(results) = 2

\* C2: the summary counts partition the outcomes into match, discrepancy and
\* error; a pair whose processing raised is counted in neither match_count
\* nor discrepancy_count.
C2_CountsPartition ==
    Complete =>
        LET errors == NumWhere(LAMBDA i : outcomes[i] = "error", Len(outcomes))
        IN  match_count + discrepancy_count + errors = total_pairs

\* C3: with unmatched files and at least one pair, no oracle request is made
\* before the user ticks "Continue with matched pairs only", and the run that
\* the tick starts proceeds into the batch and ends with every pair processed.
C3_ConfirmProceeds ==
    \A m \in {MatchFiles(pdf_files, csv_files)} :
        (/\ api_key
         /\ m.unmatched_pdfs # <<>> \/ m.unmatched_csvs # <<>>
         /\ Len(m.matched_pairs) >= 1)
        => /\ trigger # "checkbox_on" => requests = <<>>
           /\ trigger = "checkbox_on" =>
                \/ pc \in {"loop", "call"}
                \/ Complete /\ Len(results) = Len(m.matched_pairs)

\* C4: a run whose matching yields zero pairs shows the "no matching pairs"
\* error itself, and makes no oracle request.
C4_NoMatchSurfaced ==
    (Matched /\ matched_pairs = <<>>) =>
        /\ "no_match_error" \in screen
        /\ requests = <<>>

\* C5: after matching, every uploaded file name is a component of some pair
\* or is listed as unmatched on its side.
C5_NoFileLost ==
    Matched =>
        /\ \A i \in 1..Len(pdf_files) :
              \/ \E j \in 1..Len(matched_pairs) : matched_pairs[j][1] = pdf_files[i]
              \/ pdf_files[i] \in Range(unmatched_pdfs)
        /\ \A i \in 1..Len(csv_files) :
              \/ \E j \in 1..Len(matched_pairs) : matched_pairs[j][2] = csv_files[i]
              \/ csv_files[i] \in Range(unmatched_csvs)

\* no two files of the sequence normalise to the same key
NoCollision(files) ==
    \A i, j \in 1..Len(files) : i # j => KeyOf[files[i]] # KeyOf[files[j]]

\* C6: matching classification.  The key maps hold the normalised names of
\* the uploaded files; there is exactly one pair per key present in both
\* maps, made of the two maps' files for that key; unmatched_pdfs lists
\* exactly the files of the keys only in the PDF map, unmatched_csvs those of
\* the keys only in the CSV map (which, when no two names of a side share a
\* key, are exactly the uploaded names whose key the other side lacks); and
\* the documented example gives one pair and one unmatched name on each side.
C6_MatchingClassification ==
    Matched =>
        LET pk   == DictKeys(pdf_dict)
            ck   == DictKeys(csv_dict)
        IN  /\ pk = {KeyOf[pdf_files[i]] : i \in 1..Len(pdf_files)}
            /\ ck = {KeyOf[csv_files[i]] : i \in 1..Len(csv_files)}
            /\ Len(matched_pairs) = Cardinality(pk \cap ck)
            /\ Range(matched_pairs) =
                  {<<DictGet(pdf_dict, k), DictGet(csv_dict, k)>> : k \in pk \cap ck}
            /\ Len(unmatched_pdfs) = Cardinality(pk \ ck)
            /\ Range(unmatched_pdfs) = {DictGet(pdf_dict, k) : k \in pk \ ck}
            /\ Len(unmatched_csvs) = Cardinality(ck \ pk)
            /\ Range(unmatched_csvs) = {DictGet(csv_dict, k) : k \in ck \ pk}
            /\ NoCollision(pdf_files) =>
                  Range(unmatched_pdfs) =
                     {f \in Range(pdf_files) : KeyOf[f] \notin ck}
            /\ NoCollision(csv_files) =>
                  Range(unmatched_csvs) =
                     {f \in Range(csv_files) : KeyOf[f] \notin pk}
            /\ (pdf_files = <<claim_001_pdf, claim_002_pdf>>
                  /\ csv_files = <<claim_001_csv, claim_003_csv>>)
               => /\ matched_pairs = << <<claim_001_pdf, claim_001_csv>> >>
                  /\ unmatched_pdfs = <<claim_002_pdf>>
                  /\ unmatched_csvs = <<claim_003_csv>>

\* the documented example, matched
C6_Witness ==
    /\ Matched
    /\ pdf_files = <<claim_001_pdf, claim_002_pdf>>
    /\ csv_files = <<claim_001_csv, claim_003_csv>>
    /\ Len(matched_pairs) = 1

\* "CLAIM #i", the names of the i-th matched pair, and the blank line
PairHeader(i) ==
    <<"C","L","A","I","M"," ","#">> \o StrOfNat(i)
    \o <<"\n","P","D","F",":"," ">> \o matched_pairs[i][1]
    \o <<"\n","C","S","V",":"," ">> \o matched_pairs[i][2]
    \o NL2

ClaimNo(i) == <<"C","L","A","I","M"," ","#">> \o StrOfNat(i) \o <<"\n">>

\* C7: order preservation.  The i-th results entry carries the names of the
\* i-th matched pair whatever succeeded or failed; in the finished run the
\* i-th expander carries them too, the report has a block "CLAIM #i", every
\* such block continues with the i-th pair's names, and the blocks follow one
\* another in pair order.
C7_OrderPreserved ==
    /\ \A i \in 1..Len(results) :
          /\ results[i].pdf = matched_pairs[i][1]
          /\ results[i].csv = matched_pairs[i][2]
    /\ Complete =>
          /\ Len(expanders) = Len(matched_pairs)
          /\ \A i \in 1..Len(matched_pairs) :
                /\ expanders[i].n = i
                /\ expanders[i].pdf = matched_pairs[i][1]
                /\ expanders[i].csv = matched_pairs[i][2]
                /\ \A occ \in {Occurrences(results_text, ClaimNo(i))}, h \in {PairHeader(i)} :
                      /\ occ # {}
                      /\ \A q \in occ : StartsWithAt(results_text, h, q)
                      /\ i > 1 => \A prev \in {Occurrences(results_text, ClaimNo(i - 1))} :
                                     \A a \in prev, b \in occ : a < b

\* a finished batch of two different pairs, the first answered, the second failed
C7_Witness ==
    /\ Complete
    /\ Len(matched_pairs) = 2
    /\ matched_pairs[1] # matched_pairs[2]
    /\ outcomes = <<"ok", "error">>

MarkerFound == <<"D","I","S","C","R","E","P","A","N","C","Y"," ","F","O","U","N","D">>

\* C8 as stated: an answered pair is classified Discrepancy exactly when its
\* text contains "DISCREPANCY FOUND".
C8_MarkerFoundOnly ==
    Complete =>
        \A i \in 1..Len(results) :
            outcomes[i] = "ok" =>
                (expanders[i].expanded <=> Contains(results[i].result, MarkerFound))

\* C8 amended: an answered pair is classified Discrepancy exactly when its
\* text contains "DISCREPANCY", and Match otherwise: its expander is expanded
\* in the first case only, discrepancy_count counts the results containing
\* the marker and match_count the others.
C8_MarkerDiscrepancy ==
    Complete =>
        /\ \A i \in 1..Len(results) :
              outcomes[i] = "ok" =>
                  (expanders[i].expanded <=> Contains(results[i].result, Marker))
        /\ discrepancy_count =
              NumWhere(LAMBDA i : Contains(results[i].result, Marker), Len(results))
        /\ match_count =
              NumWhere(LAMBDA i : ~Contains(results[i].result, Marker), Len(results))

\* an answer with "DISCREPANCY" but not "DISCREPANCY FOUND", shown as a discrepancy
C8_Witness ==
    /\ Complete
    /\ \E i \in 1..Len(results) :
          /\ outcomes[i] = "ok"
          /\ results[i].result = NoDiscrepancy
          /\ expanders[i].expanded
    /\ discrepancy_count >= 1

\* C9: in a report of two or more blocks, the text between every two
\* consecutive blocks contains the rule line of 80 "=" characters.
C9_RuleBetweenBlocks ==
    (Complete /\ Len(results) >= 2) =>
        \A i \in 1..(Len(results) - 1) :
            \A b1 \in {Block(i, results[i])}, b2 \in {Block(i + 1, results[i + 1])} :
                \A p1 \in {IndexOf(results_text, b1)}, p2 \in {IndexOf(results_text, b2)} :
                    /\ p1 > 0
                    /\ p2 >= p1 + Len(b1)
                    /\ Contains(SubSeq(results_text, p1 + Len(b1), p2 - 1), Rule)

\* C10: oracle call discipline.  At most one request is in flight, and only
\* while the loop waits for it; the requests of a run are for pairs of
\* strictly increasing index, so none is repeated or retried, and there are
\* never more of them than matched pairs.
C10_OracleDiscipline ==
    /\ in_flight \in {0, 1}
    /\ in_flight = 1 <=> pc = "call"
    /\ Len(requests) <= Len(matched_pairs)
    /\ \A i \in 1..Len(requests) :
          /\ requests[i] \in 0..(Len(matched_pairs) - 1)
          /\ requests[i] < idx \/ (pc = "call" /\ requests[i] = idx)
          /\ \A j \in 1..(i - 1) : requests[j] < requests[i]

\* the first pair's request failed and the second pair's request is in flight
C10_Witness ==
    /\ pc = "call"
    /\ outcomes = <<"error">>
    /\ requests = <<0, 1>>
    /\ in_flight = 1
====
